---- MODULE Spec2Model ----
(***************************************************************************)
(* A model of streamlit_app.py, the calligraphy annotation tool: one user  *)
(* session (st.session_state) working on a storage bucket.  Every action   *)
(* is one user event: the script run that the event triggers, from the     *)
(* folder check at the top of the script down to the button logic, and,    *)
(* where the handler calls st.rerun(), the script run that follows.        *)
(***************************************************************************)
EXTENDS Integers, Sequences, FiniteSets, TLC

(* ------------------------------ bounds -------------------------------- *)
\* number of images listed in folder "f1"
NumImages == 2
\* last instant the clock reaches, in ticks of half a second
MaxTicks == 2
\* most storage calls that fail
MaxFailures == 1

(* --------------------------- bucket listing --------------------------- *)
NoneFolder == "None"
Folders == {"f1"}

\* the objects of folder f1, in listing order, by name
F1Names == <<"a.jpg", "b.png", "c.JPEG", "d.jpg">>

\* the objects the storage lists under a folder
FolderListing(folder) ==
    SubSeq(F1Names, 1, NumImages) \o <<"notes.txt">>

\* str.lower() of an object name
Lower(name) == IF name = "c.JPEG" THEN "c.jpeg" ELSE name

\* os.path.splitext(name)
Splitext(name) ==
    CASE name = "a.jpg"     -> <<"a", ".jpg">>
      [] name = "b.png"     -> <<"b", ".png">>
      [] name = "c.jpeg"    -> <<"c", ".jpeg">>
      [] name = "c.JPEG"    -> <<"c", ".JPEG">>
      [] name = "d.jpg"     -> <<"d", ".jpg">>
      [] name = "notes.txt" -> <<"notes", ".txt">>

\* name.lower().endswith((".jpg", ".jpeg", ".png"))
IsImageName(name) == Splitext(Lower(name))[2] \in {".jpg", ".jpeg", ".png"}

\* get_public_url(f"{folder}/{name}")
PublicUrl(folder, name) ==
    CASE folder = "f1" /\ name = "a.jpg"  -> "f1/a.jpg"
      [] folder = "f1" /\ name = "b.png"  -> "f1/b.png"
      [] folder = "f1" /\ name = "c.JPEG" -> "f1/c.JPEG"
      [] folder = "f1" /\ name = "d.jpg"  -> "f1/d.jpg"

\* os.path.basename(url)
Basename(url) ==
    CASE url = "f1/a.jpg"  -> "a.jpg"
      [] url = "f1/b.png"  -> "b.png"
      [] url = "f1/c.JPEG" -> "c.JPEG"
      [] url = "f1/d.jpg"  -> "d.jpg"

\* sorted(urls) of the image objects of the folder (the listing is by name)
get_image_urls(folder) ==
    LET names == SelectSeq(FolderListing(folder), IsImageName)
    IN  [i \in 1..Len(names) |-> PublicUrl(folder, names[i])]

\* os.path.splitext(os.path.basename(url))[0]
ImageId(url) == Splitext(Basename(url))[1]

(* ------------------------------ records ------------------------------- *)
ann_df_cols ==
    <<"id", "image_url", "text_original", "text_latinized",
      "text_translation_tr", "surah_name", "ayah_number", "comment">>

Range(s) == {s[i] : i \in 1..Len(s)}

\* {a["id"] for a in records}
IdsOf(records) == {records[i]["id"] : i \in 1..Len(records)}

\* a["id"] raises KeyError for a record without the key
HasIds(records) == \A i \in 1..Len(records) : "id" \in DOMAIN records[i]

\* the values of the form's six widgets
FormInputs ==
    { [text_original |-> "", text_latinized |-> "", text_translation_tr |-> "",
       surah_name |-> "", ayah_number |-> "", comment |-> ""],
      [text_original |-> "X", text_latinized |-> "x", text_translation_tr |-> "",
       surah_name |-> "Fatiha", ayah_number |-> "1-7", comment |-> ""] }

\* entry = {...} of the Save & Next handler
Entry(image_id, img_url, inp) ==
    [id |-> image_id, image_url |-> img_url,
     text_original |-> inp.text_original,
     text_latinized |-> inp.text_latinized,
     text_translation_tr |-> inp.text_translation_tr,
     surah_name |-> inp.surah_name,
     ayah_number |-> inp.ayah_number,
     comment |-> inp.comment]

\* the record appended by the Delete handler
DeletedEntry(image_id, img_url) ==
    [id |-> image_id, image_url |-> img_url,
     reason |-> "Not suitable for labeling"]

(* ---------------------------- JSON values ------------------------------ *)
JNull == [t |-> "null"]
JStr(s) == [t |-> "str", s |-> s]
JNum(n) == [t |-> "num", n |-> n]
JBool(b) == [t |-> "bool", b |-> b]
JDict(d) == [t |-> "dict", d |-> d]
JList(l) == [t |-> "list", l |-> l]

\* a list of dicts as a JSON value
AsJson(records) == JList([i \in 1..Len(records) |-> JDict(records[i])])

RECURSIVE DictsOf(_)
DictsOf(l) ==
    IF l = <<>> THEN <<>>
    ELSE (IF Head(l).t = "dict" THEN <<Head(l).d>> ELSE <<>>) \o DictsOf(Tail(l))

\* normalize_records without the isinstance filter on the elements
normalize_records_keep_all(obj) ==
    IF obj.t = "null" THEN <<>>
    ELSE IF obj.t = "dict" THEN <<obj.d>>
    ELSE IF obj.t = "list"
         THEN [i \in 1..Len(obj.l) |->
                 IF obj.l[i].t = "dict" THEN obj.l[i].d ELSE [value |-> obj.l[i].t]]
    ELSE <<>>

normalize_records(obj) ==
    IF obj.t = "null" THEN <<>>
    ELSE IF obj.t = "dict" THEN <<obj.d>>
    ELSE IF obj.t = "list" THEN DictsOf(obj.l)
    ELSE <<>>

\* the row without the default: {k: d[k] for k in cols if k in d}
to_row_no_default(d, cols) ==
    [k \in Range(cols) \cap DOMAIN d |-> d[k]]

\* {k: d.get(k, "") for k in cols}
to_row(d, cols) ==
    [k \in Range(cols) |-> IF k \in DOMAIN d THEN d[k] ELSE ""]

(* ------------------------------ storage ------------------------------- *)
\* f"{selected_folder}_annotations"
AnnFolder(folder) == <<folder, "_annotations">>

\* filename.replace('.json', '')
StripJson(filename) ==
    CASE filename = "annotations.json" -> "annotations"
      [] filename = "deleted.json"     -> "deleted"

\* the clock ticks twice a second
TicksPerSecond == 2

\* datetime.strftime("%Y%m%d-%H%M%S"): the instant cut to its whole second
Stamp(utc) == utc \div TicksPerSecond

NoStamp == -1

\* remote_path = f"{folder}/{filename}"
CanonKey(folder, filename) ==
    [folder |-> folder, sub |-> "", stem |-> StripJson(filename), ts |-> NoStamp]

\* the backup key stamped to the minute: strftime("%Y%m%d-%H%M")
BackupKey_by_minute(folder, filename, utc) ==
    [folder |-> folder, sub |-> "_backups", stem |-> StripJson(filename),
     ts |-> Stamp(utc) \div 60]

\* backup_key = f"{folder}/_backups/{filename.replace('.json','')}-{ts}.json"
BackupKey(folder, filename, utc) ==
    [folder |-> folder, sub |-> "_backups", stem |-> StripJson(filename),
     ts |-> Stamp(utc)]

\* json.dumps(data_obj, ensure_ascii=False, indent=2).encode("utf-8")
json_dumps(data_obj) == [encoding |-> "utf-8", indent |-> 2, doc |-> data_obj]

\* json.loads(res.decode("utf-8")) of an object of the bucket
json_load_bytes(bytes) == bytes.doc

\* upload(..., {"x-upsert": "true"}): the object is created or overwritten
Put(b, key, bytes) ==
    [k \in DOMAIN b \cup {key} |-> IF k = key THEN bytes ELSE b[k]]

\* load_existing_annotations: the document, or [] when the download raises
load_existing_annotations(b, folder, filename, dlOk) ==
    LET key == CanonKey(folder, filename)
    IN  IF dlOk /\ key \in DOMAIN b THEN json_load_bytes(b[key]) ELSE <<>>

\* upload_json_direct: the failure is caught and reported, nothing is raised
upload_json_direct(b, data_obj, folder, filename, upOk) ==
    IF upOk
    THEN [bucket |-> Put(b, CanonKey(folder, filename), json_dumps(data_obj)),
          canon |-> "ok", notes |-> {"uploaded"}]
    ELSE [bucket |-> b, canon |-> "failed", notes |-> {"upload_failed"}]

\* backup_and_upload_json with the backup's failure caught and passed over
backup_and_upload_json_lenient(b, data_obj, folder, filename, utc, bOk, upOk) ==
    LET b1 == IF bOk
              THEN Put(b, BackupKey(folder, filename, utc), json_dumps(data_obj))
              ELSE b
        up == upload_json_direct(b1, data_obj, folder, filename, upOk)
    IN  [bucket |-> up.bucket, raised |-> FALSE,
         backup |-> IF bOk THEN "ok" ELSE "failed",
         canon |-> up.canon, notes |-> up.notes]

\* backup_and_upload_json: the backup upload raises when it fails
backup_and_upload_json(b, data_obj, folder, filename, utc, bOk, upOk) ==
    IF ~bOk
    THEN [bucket |-> b, raised |-> TRUE, backup |-> "failed", canon |-> "none",
          notes |-> {}]
    ELSE LET b1 == Put(b, BackupKey(folder, filename, utc), json_dumps(data_obj))
             up == upload_json_direct(b1, data_obj, folder, filename, upOk)
         IN  [bucket |-> up.bucket, raised |-> FALSE, backup |-> "ok",
              canon |-> up.canon, notes |-> up.notes]

(* ----------------------------- navigation ----------------------------- *)
next_image(idx, n) == IF idx + 1 < n - 1 THEN idx + 1 ELSE n - 1

prev_image(idx) == IF idx - 1 > 0 THEN idx - 1 ELSE 0

\* the auto-skip loop stopping at any image that is not the last
AutoSkip_one_step(idx, urls, processed_ids) ==
    IF idx < Len(urls) /\ ImageId(urls[idx + 1]) \in processed_ids
    THEN idx + 1
    ELSE idx

\* the auto-skip loop: index is 0-based, urls[index + 1] is the image at index
RECURSIVE AutoSkip(_, _, _)
AutoSkip(idx, urls, processed_ids) ==
    IF idx < Len(urls)
    THEN IF ImageId(urls[idx + 1]) \notin processed_ids
         THEN idx
         ELSE AutoSkip(idx + 1, urls, processed_ids)
    ELSE idx

\* The script from the folder check to the end of the auto-skip: the session
\* it leaves and where it stops ("ok": the tabs are rendered next).
Script(sf, idx, ann, del, b, choice, dlAnn, dlDel) ==
    LET changed == sf # choice
        ann1 == IF changed
                THEN load_existing_annotations(b, AnnFolder(choice), "annotations.json", dlAnn)
                ELSE ann
        del1 == IF changed
                THEN load_existing_annotations(b, AnnFolder(choice), "deleted.json", dlDel)
                ELSE del
        idx1 == IF changed THEN 0 ELSE idx
        urls == get_image_urls(choice)
    IN  IF ~(HasIds(ann1) /\ HasIds(del1))
        THEN [sf |-> choice, index |-> idx1, ann |-> ann1, del |-> del1,
              out |-> "crashed"]
        ELSE LET idx2 == AutoSkip(idx1, urls, IdsOf(ann1) \cup IdsOf(del1))
             IN  [sf |-> choice, index |-> idx2, ann |-> ann1, del |-> del1,
                  out |-> IF idx2 >= Len(urls) THEN "exhausted" ELSE "ok"]

(* --------------------------- raw JSON editor --------------------------- *)
\* the texts tried in the raw editor
RawTexts ==
    { "null", "\"not a list or object\"", "7", "true",
      "{\"id\": \"z\", \"comment\": \"stale\"}",
      "[1, {\"id\": \"a\"}, \"s\", {\"id\": \"a\", \"comment\": \"dup\"}]",
      "[{\"comment\": \"no id\"}]",
      "[{\"id\": " }

\* the file chosen in the raw editor and the text tried on it
RawInputs ==
    ({"annotations.json"} \X RawTexts)
        \cup ({"deleted.json"} \X {"\"not a list or object\"", "[{\"id\": "})

\* json.loads(raw_text): the value, or JSONDecodeError
json_loads(text) ==
    CASE text = "null" -> [ok |-> TRUE, value |-> JNull]
      [] text = "\"not a list or object\"" ->
            [ok |-> TRUE, value |-> JStr("not a list or object")]
      [] text = "7" -> [ok |-> TRUE, value |-> JNum(7)]
      [] text = "true" -> [ok |-> TRUE, value |-> JBool(TRUE)]
      [] text = "{\"id\": \"z\", \"comment\": \"stale\"}" ->
            [ok |-> TRUE, value |-> JDict([id |-> "z", comment |-> "stale"])]
      [] text = "[1, {\"id\": \"a\"}, \"s\", {\"id\": \"a\", \"comment\": \"dup\"}]" ->
            [ok |-> TRUE,
             value |-> JList(<<JNum(1), JDict([id |-> "a"]), JStr("s"),
                               JDict([id |-> "a", comment |-> "dup"])>>)]
      [] text = "[{\"comment\": \"no id\"}]" ->
            [ok |-> TRUE, value |-> JList(<<JDict([comment |-> "no id"])>>)]
      [] text = "[{\"id\": " -> [ok |-> FALSE, value |-> JNull]

(* ----------------------------- grid editor ----------------------------- *)
GridEdits == {"keep", "delete_last", "add_row"}

\* ann_rows of the grid editor
ann_rows(ann) ==
    LET ann_list == normalize_records(AsJson(ann))
    IN  [i \in 1..Len(ann_list) |-> to_row(ann_list[i], ann_df_cols)]

\* the row a user adds to the grid, once: a record of no image of the folder
AddedRow == to_row([id |-> "z", comment |-> "added"], ann_df_cols)

CanEdit(rows, edit) ==
    CASE edit = "keep" -> TRUE
      [] edit = "delete_last" -> rows # <<>>
      [] edit = "add_row" -> AddedRow \notin Range(rows)

\* st.data_editor(ann_rows, num_rows="dynamic"): the rows as the user left them
data_editor(rows, edit) ==
    CASE edit = "keep" -> rows
      [] edit = "delete_last" -> SubSeq(rows, 1, Len(rows) - 1)
      [] edit = "add_row" -> Append(rows, AddedRow)

(* ------------------------------ handlers ------------------------------- *)
\* the check taking every image as annotated
AlreadyAnnotated_always(image_id, ann) == image_id \in IdsOf(ann) \cup {image_id}

\* image_id in existing_ids
AlreadyAnnotated(image_id, ann) == image_id \in IdsOf(ann)

\* "if submitted:" up to next_image(): r is the session the script left
on_submitted(r, b, utc, inp, bOk, upOk) ==
    LET urls == get_image_urls(r.sf)
        img_url == urls[r.index + 1]
        image_id == ImageId(img_url)
    IN  IF AlreadyAnnotated(image_id, r.ann)
        THEN [ann |-> r.ann, del |-> r.del, bucket |-> b, raised |-> FALSE,
              backup |-> "none", canon |-> "none",
              notes |-> {"already_annotated"},
              index |-> next_image(r.index, Len(urls))]
        ELSE LET ann2 == Append(r.ann, Entry(image_id, img_url, inp))
                 res == backup_and_upload_json(b, ann2, AnnFolder(r.sf),
                                               "annotations.json", utc, bOk, upOk)
             IN  [ann |-> ann2, del |-> r.del, bucket |-> res.bucket,
                  raised |-> res.raised, backup |-> res.backup,
                  canon |-> res.canon,
                  notes |-> IF res.raised THEN {"exception"}
                            ELSE res.notes \cup {"saved"},
                  index |-> IF res.raised THEN r.index
                            ELSE next_image(r.index, Len(urls))]

\* "elif delete_btn:" up to next_image()
on_delete(r, b, utc, bOk, upOk) ==
    LET urls == get_image_urls(r.sf)
        img_url == urls[r.index + 1]
        image_id == ImageId(img_url)
        del2 == Append(r.del, DeletedEntry(image_id, img_url))
        res == backup_and_upload_json(b, del2, AnnFolder(r.sf), "deleted.json",
                                      utc, bOk, upOk)
    IN  [ann |-> r.ann, del |-> del2, bucket |-> res.bucket,
         raised |-> res.raised, backup |-> res.backup, canon |-> res.canon,
         notes |-> IF res.raised THEN {"exception"}
                   ELSE res.notes \cup {"marked_deleted"},
         index |-> IF res.raised THEN r.index
                   ELSE next_image(r.index, Len(urls))]

\* "Save grid -> annotations.json"
on_save_grid(r, b, utc, edit, bOk, upOk) ==
    LET ann_df == data_editor(ann_rows(r.ann), edit)
        res == backup_and_upload_json(b, ann_df, AnnFolder(r.sf),
                                      "annotations.json", utc, bOk, upOk)
    IN  [ann |-> ann_df, del |-> r.del, bucket |-> res.bucket,
         raised |-> res.raised, backup |-> res.backup, canon |-> res.canon,
         notes |-> IF res.raised THEN {"exception"}
                   ELSE res.notes \cup {"saved"},
         index |-> r.index]

\* "Validate & Save JSON" taking a text that does not parse as an empty list
on_validate_save_lenient(r, b, utc, raw_choice, raw_text, bOk, upOk) ==
    LET parsed == json_loads(raw_text)
        obj == IF parsed.ok THEN normalize_records(parsed.value) ELSE <<>>
        res == backup_and_upload_json(b, obj, AnnFolder(r.sf), raw_choice,
                                      utc, bOk, upOk)
    IN  [ann |-> IF raw_choice = "annotations.json" THEN obj ELSE r.ann,
         del |-> IF raw_choice = "deleted.json" THEN obj ELSE r.del,
         bucket |-> res.bucket, raised |-> res.raised,
         backup |-> res.backup, canon |-> res.canon,
         notes |-> IF res.raised THEN {"exception"}
                   ELSE res.notes \cup (IF parsed.ok THEN {"saved"}
                                        ELSE {"invalid_json"}),
         index |-> r.index]

\* "Validate & Save JSON"
on_validate_save(r, b, utc, raw_choice, raw_text, bOk, upOk) ==
    LET parsed == json_loads(raw_text)
    IN  IF ~parsed.ok
        THEN [ann |-> r.ann, del |-> r.del, bucket |-> b, raised |-> FALSE,
              backup |-> "none", canon |-> "none", notes |-> {"invalid_json"},
              index |-> r.index]
        ELSE LET obj == normalize_records(parsed.value)
                 res == backup_and_upload_json(b, obj, AnnFolder(r.sf), raw_choice,
                                               utc, bOk, upOk)
             IN  [ann |-> IF raw_choice = "annotations.json" THEN obj ELSE r.ann,
                  del |-> IF raw_choice = "deleted.json" THEN obj ELSE r.del,
                  bucket |-> res.bucket, raised |-> res.raised,
                  backup |-> res.backup, canon |-> res.canon,
                  notes |-> IF res.raised THEN {"exception"}
                            ELSE res.notes \cup {"saved"},
                  index |-> r.index]

(* ------------------------------- state --------------------------------- *)
VARIABLES
    selected_folder,  \* st.session_state.selected_folder
    index,            \* st.session_state.index
    annotations,      \* st.session_state.annotations
    deleted,          \* st.session_state.deleted
    bucket,           \* the JSON objects of the storage bucket, by key
    now,              \* datetime.utcnow(), in ticks
    view,             \* how far the last script run rendered the page
    shown,            \* the image the last run rendered in the annotate tab
    acted,            \* the image rendered by the run whose handler ran last
    msgs,             \* what the last handler reported to the user
    last,             \* the handler the last event ran
    edited,           \* the file and the text the raw editor last submitted
    failures,         \* the storage calls that failed so far
    made              \* the backups made so far: the last one of each second

vars == <<selected_folder, index, annotations, deleted, bucket, now, view,
          shown, acted, msgs, last, edited, failures, made>>

NotShown == [idx |-> -1, fresh |-> FALSE]

Init ==
    /\ selected_folder = NoneFolder
    /\ index = 0
    /\ annotations = <<>>
    /\ deleted = <<>>
    /\ bucket = <<>>
    /\ now = 0
    /\ view = "none"
    /\ shown = NotShown
    /\ acted = NotShown
    /\ msgs = {}
    /\ last = "init"
    /\ edited = <<>>
    /\ failures = 0
    /\ made = {}

\* what the tabs show of the session r that the script left
Render(r) ==
    IF r.out = "ok"
    THEN [idx |-> r.index,
          fresh |-> ImageId(get_image_urls(r.sf)[r.index + 1])
                        \notin (IdsOf(r.ann) \cup IdsOf(r.del))]
    ELSE NotShown

\* st.stop() at the completion message, an uncaught KeyError, or both tabs
ViewOf(out) ==
    CASE out = "ok" -> "full"
      [] out = "exhausted" -> "exhausted"
      [] out = "crashed" -> "crashed"

CanAnnotate == view \in {"annotate", "grid", "full"}
CanReview == view \in {"grid", "full"}
CanRawEdit == view = "full"

\* the script run an event triggers, with the folder still chosen
Run == Script(selected_folder, index, annotations, deleted, bucket,
              selected_folder, TRUE, TRUE)

\* the script run after st.rerun()
Rerun(sf, h) == Script(sf, h.index, h.ann, h.del, h.bucket, sf, TRUE, TRUE)

SetSession(r) ==
    /\ selected_folder' = r.sf
    /\ index' = r.index
    /\ annotations' = r.ann
    /\ deleted' = r.del

\* the run stopped above the tabs: no handler ran
Stopped(r) ==
    /\ SetSession(r)
    /\ view' = ViewOf(r.out)
    /\ shown' = Render(r)
    /\ acted' = NotShown
    /\ msgs' = {}
    /\ last' = "stopped"
    /\ edited' = <<>>
    /\ UNCHANGED <<bucket, now, failures, made>>

\* the backups after a handler saved document doc of folder sf
Made(sf, doc, h) ==
    IF h.backup = "ok"
    THEN LET sec == now \div TicksPerSecond
             data == IF doc = "annotations.json" THEN h.ann ELSE h.del
         IN  {m \in made : ~(m.folder = sf /\ m.doc = doc /\ m.sec = sec)}
                \cup {[folder |-> sf, doc |-> doc, sec |-> sec,
                       bytes |-> json_dumps(data)]}
    ELSE made

\* the storage calls of a handler that failed
Failed(h) == IF "failed" \in {h.backup, h.canon} THEN 1 ELSE 0

\* a handler that ends in st.rerun(), or in an uncaught exception
Finish(op, r, h, doc, onRaise) ==
    /\ failures + Failed(h) <= MaxFailures
    /\ failures' = failures + Failed(h)
    /\ bucket' = h.bucket
    /\ made' = Made(r.sf, doc, h)
    /\ msgs' = h.notes
    /\ acted' = Render(r)
    /\ last' = op
    /\ edited' = <<>>
    /\ now' = now
    /\ IF h.raised
       THEN /\ SetSession([sf |-> r.sf, index |-> h.index, ann |-> h.ann,
                           del |-> h.del])
            /\ view' = onRaise
            /\ shown' = Render(r)
       ELSE LET rr == Rerun(r.sf, h)
            IN  /\ SetSession(rr)
                /\ view' = ViewOf(rr.out)
                /\ shown' = Render(rr)

\* a handler that returns: the script ends with the page as rendered
FinishNoRerun(op, r, h, doc, raw, onRaise) ==
    /\ failures + Failed(h) <= MaxFailures
    /\ failures' = failures + Failed(h)
    /\ bucket' = h.bucket
    /\ made' = Made(r.sf, doc, h)
    /\ msgs' = h.notes
    /\ acted' = Render(r)
    /\ last' = op
    /\ edited' = raw
    /\ now' = now
    /\ SetSession([sf |-> r.sf, index |-> h.index, ann |-> h.ann, del |-> h.del])
    /\ view' = IF h.raised THEN onRaise ELSE "full"
    /\ shown' = Render(r)

(* ------------------------------ actions -------------------------------- *)
\* the page is opened (a new session) or run again with the folder chosen
SelectFolder(choice, opened, dlOk) ==
    LET sf == IF opened THEN NoneFolder ELSE selected_folder
        r == Script(sf, index, annotations, deleted, bucket, choice, dlOk, dlOk)
        failed == IF sf # choice /\ ~dlOk THEN 1 ELSE 0
    IN  /\ failures + failed <= MaxFailures
        /\ failures' = failures + failed
        /\ SetSession(r)
        /\ view' = ViewOf(r.out)
        /\ shown' = Render(r)
        /\ acted' = NotShown
        /\ msgs' = {}
        /\ last' = IF sf # choice THEN "load" ELSE "rerun"
    /\ edited' = <<>>
        /\ UNCHANGED <<bucket, now, made>>

\* "Save & Next"
SaveNext(inp, bOk, upOk) ==
    /\ CanAnnotate
    /\ LET r == Run
       IN  IF r.out # "ok" THEN Stopped(r)
           ELSE Finish("save", r, on_submitted(r, bucket, now, inp, bOk, upOk),
                       "annotations.json", "annotate")

\* "Delete"
Delete(bOk, upOk) ==
    /\ CanAnnotate
    /\ LET r == Run
       IN  IF r.out # "ok" THEN Stopped(r)
           ELSE Finish("delete", r, on_delete(r, bucket, now, bOk, upOk),
                       "deleted.json", "annotate")

NoSave(idx, ann, del, notes, dlOk) ==
    [ann |-> ann, del |-> del, bucket |-> bucket, raised |-> FALSE,
     backup |-> "none", canon |-> IF dlOk THEN "none" ELSE "failed",
     notes |-> notes, index |-> idx]

\* "Back"
Back ==
    /\ CanAnnotate
    /\ LET r == Run
       IN  IF r.out # "ok" THEN Stopped(r)
           ELSE Finish("back", r,
                       NoSave(prev_image(r.index), r.ann, r.del, {"moved_back"},
                              TRUE),
                       "", "annotate")

\* "Reload annotations.json" / "Reload deleted.json"
Reload(doc, dlOk) ==
    /\ CanReview
    /\ LET r == Run
           loaded == load_existing_annotations(bucket, AnnFolder(r.sf), doc, dlOk)
       IN  IF r.out # "ok" THEN Stopped(r)
           ELSE Finish("reload", r,
                       NoSave(r.index,
                              IF doc = "annotations.json" THEN loaded ELSE r.ann,
                              IF doc = "deleted.json" THEN loaded ELSE r.del, {},
                              dlOk),
                       "", "annotate")

\* "Save grid -> annotations.json"
SaveGrid(edit, bOk, upOk) ==
    /\ CanReview
    /\ LET r == Run
       IN  IF r.out # "ok" THEN Stopped(r)
           ELSE /\ CanEdit(ann_rows(r.ann), edit)
                /\ FinishNoRerun("grid", r,
                                 on_save_grid(r, bucket, now, edit, bOk, upOk),
                                 "annotations.json", <<>>, "grid")

\* "Validate & Save JSON"
ValidateSave(raw_choice, raw_text, bOk, upOk) ==
    /\ CanRawEdit
    /\ LET r == Run
       IN  IF r.out # "ok" THEN Stopped(r)
           ELSE FinishNoRerun("raw", r,
                              on_validate_save(r, bucket, now, raw_choice,
                                               raw_text, bOk, upOk),
                              raw_choice, <<raw_choice, raw_text>>, "full")

\* time passes
Tick ==
    /\ now < MaxTicks
    /\ now' = now + 1
    /\ UNCHANGED <<selected_folder, index, annotations, deleted, bucket, view,
                   shown, acted, msgs, last, edited, failures, made>>

\* how the backup upload and the canonical upload of a save end: the
\* canonical upload is not reached when the backup upload fails
Outcomes(oks) == {o \in oks \X oks : o[1] \/ o[2]}

\* the user's events, with the inputs tried and the storage calls' outcomes
UserEvent(forms, raws, edits, oks) ==
    \/ \E choice \in Folders, opened \in BOOLEAN, dlOk \in oks :
          SelectFolder(choice, opened, dlOk)
    \/ \E inp \in forms, o \in Outcomes(oks) : SaveNext(inp, o[1], o[2])
    \/ \E o \in Outcomes(oks) : Delete(o[1], o[2])
    \/ Back
    \/ \E doc \in {"annotations.json", "deleted.json"}, dlOk \in oks :
          Reload(doc, dlOk)
    \/ \E edit \in edits, o \in Outcomes(oks) : SaveGrid(edit, o[1], o[2])
    \/ \E raw \in raws, o \in Outcomes(oks) :
          ValidateSave(raw[1], raw[2], o[1], o[2])

\* a session on a storage that answers every call
Next == UserEvent(FormInputs, RawInputs, GridEdits, {TRUE})

Spec == Init /\ [][Next]_vars

\* the inputs tried on a storage whose calls may fail, and while time passes
FewForms == {inp \in FormInputs : inp.text_original = "X"}
FewRaws == {raw \in RawInputs : raw[2] \in {"\"not a list or object\"", "[{\"id\": "}}
FewEdits == {"delete_last"}

\* a session on a storage whose calls may fail
NextFaults == UserEvent(FewForms, FewRaws, FewEdits, BOOLEAN)

SpecFaults == Init /\ [][NextFaults]_vars

\* a session while time passes
NextClock == UserEvent(FewForms, FewRaws, FewEdits, {TRUE}) \/ Tick

SpecClock == Init /\ [][NextClock]_vars

(* ------------------------- what the claims use -------------------------- *)
Docs == {"annotations.json", "deleted.json"}

\* the observed images of the folder chosen
Urls == get_image_urls(selected_folder)

ObservedIds == {ImageId(Urls[i]) : i \in 1..Len(Urls)}

\* the union of the annotated and the deleted ids
Processed == IdsOf(annotations) \cup IdsOf(deleted)

\* the session's sequence for a document
InMemory(doc) == IF doc = "annotations.json" THEN annotations ELSE deleted

\* the canonical document of the folder is in the bucket with this content
Stored(folder, doc, records) ==
    /\ CanonKey(AnnFolder(folder), doc) \in DOMAIN bucket
    /\ bucket[CanonKey(AnnFolder(folder), doc)] = json_dumps(records)

\* the last run ended at its auto-skip: nothing changed the lists after it
Settled ==
    /\ last \in {"load", "rerun", "stopped", "save", "delete", "back", "reload"}
    /\ "exception" \notin msgs

\* no two records of the sequence carry the same id
UniqueIds(records) ==
    \A i, j \in 1..Len(records) :
        (i # j /\ "id" \in DOMAIN records[i] /\ "id" \in DOMAIN records[j])
            => records[i]["id"] # records[j]["id"]

(* -------------------------------- C3 ------------------------------------ *)
\* C3: after a run that ended at its auto-skip, the session is in the
\* exhausted state (index >= N, completion message) exactly when every
\* observed image id is annotated or deleted.
C3_ExhaustedIffAllProcessed ==
    (Settled /\ view \in {"exhausted", "full"})
        => ((view = "exhausted" /\ index >= Len(Urls)) <=> ObservedIds \subseteq Processed)

(* -------------------------------- C7 ------------------------------------ *)
\* C7: whenever the annotate tab is rendered, and whenever Save & Next,
\* Delete or Back acts, 0 <= index < N and the image at index is neither
\* annotated nor deleted.
C7_ShownImageUnprocessed ==
    /\ CanAnnotate => (shown.idx \in 0..(Len(Urls) - 1) /\ shown.fresh)
    /\ last \in {"save", "delete", "back"}
          => (acted.idx \in 0..(Len(Urls) - 1) /\ acted.fresh)

\* the auto-skip has passed a deleted image and the next one is shown
C7_Witness ==
    /\ last = "delete"
    /\ view = "full"
    /\ shown.idx = 1
    /\ acted.idx = 0
    /\ IdsOf(deleted) = {"a"}

(* -------------------------------- C1 ------------------------------------ *)
\* C1: a Save & Next step for the image with id X appends one record with
\* id X, holding the submitted values, iff the sequence had no record with
\* id X; otherwise the sequence and the bucket are left as they were and the
\* user is only told.  Either way exactly one record with id X is left, and
\* a record that was there is the one that stays.
C1_SaveAppendsOnce ==
    [][ last' = "save" =>
          LET img_url == Urls'[acted'.idx + 1]
              X == ImageId(img_url)
          IN  /\ IF X \in IdsOf(annotations)
                 THEN /\ annotations' = annotations
                      /\ bucket' = bucket
                      /\ msgs' = {"already_annotated"}
                 ELSE \E inp \in FormInputs :
                         annotations' = Append(annotations, Entry(X, img_url, inp))
              /\ Cardinality({i \in 1..Len(annotations') :
                                 annotations'[i]["id"] = X}) = 1
      ]_vars

\* a submission was saved after another one
C1_Witness ==
    /\ last = "save"
    /\ "saved" \in msgs
    /\ Len(annotations) = 2
    /\ annotations[1]["id"] = "a"
    /\ annotations[1]["text_original"] = "X"
    /\ annotations[2]["id"] = "b"

(* -------------------------------- C2 ------------------------------------ *)
\* C2: the in-memory annotation sequence, and the canonical annotations.json
\* written from it, hold at most one record per id.
C2_OneRecordPerId ==
    /\ UniqueIds(annotations)
    /\ \A f \in Folders :
          CanonKey(AnnFolder(f), "annotations.json") \in DOMAIN bucket
             => UniqueIds(json_load_bytes(
                    bucket[CanonKey(AnnFolder(f), "annotations.json")]))

(* -------------------------------- C4 ------------------------------------ *)
\* C4: in every step that overwrites a canonical document, the backup object
\* of that instant holds the same content; and a step whose backup upload
\* failed leaves the bucket as it was and reports the failure.
C4_BackupBeforeCanonical ==
    [][ /\ \A f \in Folders, doc \in Docs :
              LET ck == CanonKey(AnnFolder(f), doc)
                  bk == BackupKey(AnnFolder(f), doc, now)
              IN  (/\ ck \in DOMAIN bucket'
                   /\ (ck \in DOMAIN bucket => bucket'[ck] # bucket[ck]))
                      => (bk \in DOMAIN bucket' /\ bucket'[bk] = bucket'[ck])
        /\ (/\ failures' = failures + 1
            /\ last' \in {"save", "delete", "grid", "raw"}
            /\ "upload_failed" \notin msgs')
              => (bucket' = bucket /\ "exception" \in msgs')
      ]_vars

\* a backup upload failed on a save and the canonical document was not written
C4_Witness ==
    /\ last = "save"
    /\ "exception" \in msgs
    /\ failures = 1
    /\ annotations # <<>>
    /\ CanonKey(AnnFolder("f1"), "annotations.json") \notin DOMAIN bucket

(* -------------------------------- C10 ----------------------------------- *)
\* C10: when a save handler has told the user that it saved, the canonical
\* document in the bucket is the session's sequence.
C10_SavedMeansStored ==
    /\ (last \in {"save", "grid"} /\ "saved" \in msgs)
          => Stored(selected_folder, "annotations.json", annotations)
    /\ (last = "delete" /\ "marked_deleted" \in msgs)
          => Stored(selected_folder, "deleted.json", deleted)
    /\ (last = "raw" /\ "saved" \in msgs)
          => Stored(selected_folder, edited[1], InMemory(edited[1]))

(* -------------------------------- C8 ------------------------------------ *)
\* C8: a Validate & Save step on a text that does not parse reports the
\* error and leaves both sequences and the bucket as they were.
C8_InvalidJsonChangesNothing ==
    [][ (last' = "raw" /\ ~json_loads(edited'[2]).ok) =>
          /\ annotations' = annotations
          /\ deleted' = deleted
          /\ bucket' = bucket
          /\ msgs' = {"invalid_json"}
      ]_vars

\* an unparsable text was submitted while there was a document to lose
C8_Witness ==
    /\ last = "raw"
    /\ msgs = {"invalid_json"}
    /\ edited = <<"annotations.json", "[{\"id\": ">>
    /\ annotations # <<>>
    /\ Stored("f1", "annotations.json", annotations)

(* -------------------------------- C9 ------------------------------------ *)
\* the elements of a JSON list that are mappings, in their order
MappingsOf(l) ==
    LET ds == SelectSeq(l, LAMBDA e : e.t = "dict")
    IN  [i \in 1..Len(ds) |-> ds[i].d]

\* C9: the sequence saved from a parsed value x is empty for null, <<x>> for
\* a mapping, the mappings of x in order for a list, and empty for any
\* other value, whose save leaves an empty document.
C9_NormalizeRule ==
    (last = "raw" /\ json_loads(edited[2]).ok) =>
        LET x == json_loads(edited[2]).value
            out == InMemory(edited[1])
        IN  /\ x.t = "null" => out = <<>>
            /\ x.t = "dict" => out = <<x.d>>
            /\ x.t = "list" => out = MappingsOf(x.l)
            /\ x.t \in {"str", "num", "bool"} => out = <<>>
            /\ (x.t \in {"str", "num", "bool"} /\ "saved" \in msgs)
                  => Stored(selected_folder, edited[1], <<>>)

\* the list with elements that are no mappings was saved
C9_Witness ==
    /\ last = "raw"
    /\ edited[2] = "[1, {\"id\": \"a\"}, \"s\", {\"id\": \"a\", \"comment\": \"dup\"}]"
    /\ Len(annotations) = 2
    /\ "saved" \in msgs

(* -------------------------------- C5 ------------------------------------ *)
\* the rows of the grid editor for the session's annotations
GridRows == ann_rows(annotations)

\* the folder has just been loaded and the grid is rendered
FolderLoaded == view = "full" /\ last = "load"

BackupsOf(f, doc) ==
    {k \in DOMAIN bucket :
        k.folder = AnnFolder(f) /\ k.sub = "_backups" /\ k.stem = StripJson(doc)}

\* C6: the last save of each second has its backup object, with the content
\* saved, whatever was saved in other seconds; a document has as many backup
\* objects as seconds in which it was saved.
C6_BackupPerSecond ==
    /\ \A m \in made :
          \E k \in BackupsOf(m.folder, m.doc) : bucket[k] = m.bytes
    /\ \A f \in Folders, doc \in Docs :
          Cardinality(BackupsOf(f, doc))
             = Cardinality({m \in made : m.folder = f /\ m.doc = doc})

\* a document saved in two seconds, with different content
C6_Witness ==
    \E m1, m2 \in made :
        /\ m1.doc = m2.doc
        /\ m1.sec # m2.sec
        /\ m1.bytes # m2.bytes
        /\ Cardinality(BackupsOf(m1.folder, m1.doc)) = 2

====
